---- MODULE Spec2Model ----
(***************************************************************************)
(* A model of the PRP orchestrator: state derivation from git / GitHub,   *)
(* the priority-ordered choice of the next action, the four workflows     *)
(* (merge, revise, enrich, execute), the run loop and the lock file.      *)
(***************************************************************************)
EXTENDS Integers, Sequences, FiniteSets, TLC

\* The ids a plan of the model can declare, in declaration order.
PlanIds == <<"A", "B", "C">>

Ids == {PlanIds[i] : i \in DOMAIN PlanIds}

\* Process ids: 1 is the run under study, 2 is another run of the project.
Procs == {1, 2}

VARIABLES
    prps,         \* master plan: the ids of its PRPs, in declaration order
    dependsOn,    \* master plan: item -> set of ids it depends on
    completed,    \* master plan: pre-declared completed ids
    enriched,     \* item -> enriched file exists in enrichedDir
    branch,       \* item -> remote branch auto/<id>-<slug> exists
    pr,           \* item -> the pull request of that branch
    merged,       \* item -> a merged pull request with that head prefix exists
    head,         \* checked-out branch of the working tree: 0 is the default branch
    pc,           \* position of run 1 in runProject
    states,       \* the PRPState[] of the last deriveAllStates
    action,       \* what executeNextAction chose on that snapshot
    acts,         \* workflows invoked in the current runProject
    result,       \* how the last runProject returned
    lock,         \* the lock file .prp-lock
    activeLocks,  \* process -> lock file is in its activeLocks set
    fsOps,        \* file operations of the last acquireLock call
    now,          \* Date.now(), in minutes
    lpc,          \* lock model: process -> position of its run
    apc,          \* race model: process -> position inside acquireLock
    env,          \* what gh auth status and git status find in the project
    flow,         \* workflow model: the last workflow, command by command
    batch,        \* batch model: runAllProjects over its list of projects
    agent,        \* agent model: one runClaude call, its process and its timer
    validation,   \* validation model: one runValidation call inside executePRP
    names         \* naming model: ids and titles of a plan, branches made and derived

vars == <<prps, dependsOn, completed, enriched, branch, pr, merged, head, pc, states,
          action, acts, result, lock, activeLocks, fsOps, now, lpc, apc, env,
          flow, batch, agent, validation, names>>

planVars == <<prps, dependsOn, completed>>

Items == DOMAIN prps

worldVars == <<enriched, branch, pr, merged>>

lockVars == <<lock, activeLocks, fsOps>>

otherModels == <<lpc, apc, env, flow, batch, agent, validation, names>>

\* No workflow has run yet; the local branch of the item does not exist
NoFlow == [type |-> "none", remote |-> FALSE, local |-> FALSE, feedback |-> FALSE,
           agentOk |-> FALSE, found |-> FALSE, changes |-> FALSE, fault |-> "none",
           done |-> <<>>,
           failed |-> "none", threw |-> FALSE]

\* runAllProjects is not running
\* No runClaude call yet
NoAgent == [workflow |-> "none", proc |-> "none", killed |-> FALSE, code |-> "none",
            timer |-> "unset", elapsed |-> 0, timedOut |-> FALSE,
            result |-> "pending"]

\* No runValidation call yet
NoValidation == [at |-> "idle", pkg |-> "absent", scripts |-> {}, failing |-> {},
                 result |-> [build |-> TRUE, test |-> TRUE, format |-> TRUE],
                 done |-> <<>>, body |-> <<>>]

\* No plan named yet
NoNames == [at |-> "idle", ids |-> <<>>, titles |-> <<>>, remote |-> {},
            derived |-> <<>>]

NoBatch == [at |-> "idle", n |-> 0, cur |-> 0, locks |-> <<>>, runs |-> <<>>,
            outcome |-> "none"]

-----------------------------------------------------------------------------
\* Pull requests and review decisions

NoPR == [state |-> "absent", labels |-> {}, decision |-> ""]

\* gh pr create: a new open request, no label, no review
NewPR == [state |-> "open", labels |-> {}, decision |-> ""]

\* What a reviewer can leave on an open request: labels and platform decision.
ReviewInputs ==
    { [labels |-> {"approved"}, decision |-> "CHANGES_REQUESTED"],
      [labels |-> {"changes-requested"}, decision |-> ""],
      [labels |-> {}, decision |-> "REVIEW_REQUIRED"],
      [labels |-> {}, decision |-> "APPROVED"] }

reviewState_labelsLast(labels, decision) ==
    IF decision = "APPROVED" THEN "approved"
    ELSE IF decision = "CHANGES_REQUESTED" THEN "changes_requested"
    ELSE IF "approved" \in labels \/ "lgtm" \in labels THEN "approved"
    ELSE IF "changes-requested" \in labels \/ "needs-changes" \in labels
         THEN "changes_requested"
    ELSE IF decision = "REVIEW_REQUIRED" THEN "pending"
    ELSE "none"

reviewState_changesFirst(labels, decision) ==
    IF "changes-requested" \in labels \/ "needs-changes" \in labels
         THEN "changes_requested"
    ELSE IF "approved" \in labels \/ "lgtm" \in labels THEN "approved"
    ELSE IF decision = "APPROVED" THEN "approved"
    ELSE IF decision = "CHANGES_REQUESTED" THEN "changes_requested"
    ELSE IF decision = "REVIEW_REQUIRED" THEN "pending"
    ELSE "none"

\* derivePRPState, the review state of a found request
reviewState(labels, decision) ==
    IF "approved" \in labels \/ "lgtm" \in labels THEN "approved"
    ELSE IF "changes-requested" \in labels \/ "needs-changes" \in labels
         THEN "changes_requested"
    ELSE IF decision = "APPROVED" THEN "approved"
    ELSE IF decision = "CHANGES_REQUESTED" THEN "changes_requested"
    ELSE IF decision = "REVIEW_REQUIRED" THEN "pending"
    ELSE "none"

-----------------------------------------------------------------------------
\* State derivation

\* The external queries of derivePRPState that can fail for one item.
Queries == {"branch", "pr", "merged"}

derivePRPState_mergedOnFailure(i, failed) ==
    LET hasBranch == branch[i] /\ "branch" \notin failed
        found == hasBranch /\ "pr" \notin failed /\ pr[i].state # "absent"
        foundMerged == ~found /\ ("merged" \in failed \/ merged[i])
    IN [ id |-> prps[i],
         dependsOn |-> dependsOn[i],
         isEnriched |-> enriched[i],
         branch |-> hasBranch,
         prNumber |-> found \/ foundMerged,
         prState |-> IF found THEN pr[i].state
                     ELSE IF foundMerged THEN "merged" ELSE "undefined",
         reviewState |-> IF found THEN reviewState(pr[i].labels, pr[i].decision)
                         ELSE "undefined" ]

derivePRPState_prWithoutBranch(i, failed) ==
    LET hasBranch == branch[i] /\ "branch" \notin failed
        found == "pr" \notin failed /\ pr[i].state # "absent"
        foundMerged == ~found /\ "merged" \notin failed /\ merged[i]
    IN [ id |-> prps[i],
         dependsOn |-> dependsOn[i],
         isEnriched |-> enriched[i],
         branch |-> hasBranch,
         prNumber |-> found \/ foundMerged,
         prState |-> IF found THEN pr[i].state
                     ELSE IF foundMerged THEN "merged" ELSE "undefined",
         reviewState |-> IF found THEN reviewState(pr[i].labels, pr[i].decision)
                         ELSE "undefined" ]

\* derivePRPState for item i, with the queries in failed returning nothing
derivePRPState(i, failed) ==
    LET hasBranch == branch[i] /\ "branch" \notin failed
        found == hasBranch /\ "pr" \notin failed /\ pr[i].state # "absent"
        foundMerged == ~found /\ "merged" \notin failed /\ merged[i]
    IN [ id |-> prps[i],
         dependsOn |-> dependsOn[i],
         isEnriched |-> enriched[i],
         branch |-> hasBranch,
         prNumber |-> found \/ foundMerged,
         prState |-> IF found THEN pr[i].state
                     ELSE IF foundMerged THEN "merged" ELSE "undefined",
         reviewState |-> IF found THEN reviewState(pr[i].labels, pr[i].decision)
                         ELSE "undefined" ]

deriveAllStates_reversed(fails) ==
    [i \in Items |-> derivePRPState(Len(prps) + 1 - i, fails[i])]

\* deriveAllStates: one state per plan item, in plan order
deriveAllStates(fails) == [i \in Items |-> derivePRPState(i, fails[i])]

-----------------------------------------------------------------------------
\* Selection

\* Array.prototype.find: the index of the first element of S, 0 when none
find(S) == IF S = {} THEN 0 ELSE CHOOSE i \in S : \A j \in S : i <= j

isComplete_someMerged(sts) == \E i \in DOMAIN sts : sts[i].prState = "merged"

isComplete(sts) == \A i \in DOMAIN sts : sts[i].prState = "merged"

getMergedIds_closedToo(sts, done) ==
    {sts[i].id : i \in {j \in DOMAIN sts : sts[j].prState \in {"merged", "closed"}}}
        \cup done

getMergedIds(sts, done) ==
    {sts[i].id : i \in {j \in DOMAIN sts : sts[j].prState = "merged"}} \cup done

findNextPRP_skipClosed(sts, done) ==
    LET mergedIds == getMergedIds(sts, done)
    IN find({i \in DOMAIN sts :
               /\ sts[i].prState = "undefined"
               /\ \A dep \in sts[i].dependsOn : dep \in mergedIds})

findNextPRP(sts, done) ==
    LET mergedIds == getMergedIds(sts, done)
    IN find({i \in DOMAIN sts :
               /\ ~(sts[i].prState = "merged" \/ sts[i].prState = "open")
               /\ \A dep \in sts[i].dependsOn : dep \in mergedIds})

findApprovedPRP_anyState(sts) ==
    find({i \in DOMAIN sts : sts[i].reviewState = "approved"})

findApprovedPRP(sts) ==
    find({i \in DOMAIN sts :
            sts[i].prState = "open" /\ sts[i].reviewState = "approved"})

findChangesRequestedPRP(sts) ==
    find({i \in DOMAIN sts :
            sts[i].prState = "open" /\ sts[i].reviewState = "changes_requested"})

findPendingReviewPRP_pendingOnly(sts) ==
    find({i \in DOMAIN sts :
            sts[i].prState = "open" /\ sts[i].reviewState = "pending"})

findPendingReviewPRP(sts) ==
    find({i \in DOMAIN sts :
            /\ sts[i].prState = "open"
            /\ (sts[i].reviewState = "pending" \/ sts[i].reviewState = "none")})

Unselected == [type |-> "unselected", item |-> 0]

nextAction_skipsEnrich(sts, done) ==
    IF findApprovedPRP(sts) # 0
        THEN [type |-> "merge", item |-> findApprovedPRP(sts)]
    ELSE IF findChangesRequestedPRP(sts) # 0
        THEN [type |-> "revise", item |-> findChangesRequestedPRP(sts)]
    ELSE IF findPendingReviewPRP(sts) # 0
        THEN [type |-> "wait", item |-> findPendingReviewPRP(sts)]
    ELSE IF findNextPRP(sts, done) = 0
        THEN [type |-> "none", item |-> 0]
    ELSE [type |-> "execute", item |-> findNextPRP(sts, done)]

\* executeNextAction, the choice it makes on a snapshot
nextAction(sts, done) ==
    IF findApprovedPRP(sts) # 0
        THEN [type |-> "merge", item |-> findApprovedPRP(sts)]
    ELSE IF findChangesRequestedPRP(sts) # 0
        THEN [type |-> "revise", item |-> findChangesRequestedPRP(sts)]
    ELSE IF findPendingReviewPRP(sts) # 0
        THEN [type |-> "wait", item |-> findPendingReviewPRP(sts)]
    ELSE IF findNextPRP(sts, done) = 0
        THEN [type |-> "none", item |-> 0]
    ELSE IF ~sts[findNextPRP(sts, done)].isEnriched
        THEN [type |-> "enrich", item |-> findNextPRP(sts, done)]
    ELSE [type |-> "execute", item |-> findNextPRP(sts, done)]

-----------------------------------------------------------------------------
\* Lock file

\* acquireLock: maxAge, in minutes
LockMaxAgeMinutes == 45

NoLock == [exists |-> FALSE, pid |-> 0, mtime |-> 0]

LockBy(pid, t) == [exists |-> TRUE, pid |-> pid, mtime |-> t]

acquireLock_staleAtOrBelow(file, t, pid) ==
    IF file.exists /\ t - file.mtime <= LockMaxAgeMinutes
    THEN [ok |-> FALSE, file |-> file, ops |-> <<"read">>]
    ELSE [ok |-> TRUE, file |-> LockBy(pid, t),
          ops |-> IF file.exists THEN <<"unlink", "write">> ELSE <<"write">>]

acquireLock_overwrites(file, t, pid) ==
    [ok |-> ~(file.exists /\ t - file.mtime < LockMaxAgeMinutes),
     file |-> LockBy(pid, t),
     ops |-> IF file.exists THEN <<"unlink", "write">> ELSE <<"write">>]

\* acquireLock on lock file `file` at time t by process pid: the result, the
\* file afterwards and the file operations made, in order
acquireLock(file, t, pid) ==
    IF file.exists /\ t - file.mtime < LockMaxAgeMinutes
    THEN [ok |-> FALSE, file |-> file, ops |-> <<"read">>]
    ELSE [ok |-> TRUE, file |-> LockBy(pid, t),
          ops |-> IF file.exists THEN <<"unlink", "write">> ELSE <<"write">>]

releaseLock_keepsFile(file) == file

\* releaseLock: the file afterwards
releaseLock(file) == NoLock

-----------------------------------------------------------------------------
\* Prerequisites

\* The project as the two prerequisite commands find it
Healthy == [auth |-> TRUE, repo |-> TRUE]

Envs == [auth : BOOLEAN, repo : BOOLEAN]

\* exec: what the caller gets from a command that exits with zero (ok) or not:
\* its output, the empty string when silent, or the error thrown
exec(ok, silent) ==
    IF ok THEN "output" ELSE IF silent THEN "" ELSE "throws"

\* checkPrerequisites: gh auth status, then git status, both through exec with
\* silent set, each in a try whose catch returns the error
checkPrerequisites(e) ==
    IF exec(e.auth, TRUE) = "throws"
        THEN [ok |-> FALSE, error |-> "GitHub CLI not authenticated"]
    ELSE IF exec(e.repo, TRUE) = "throws"
        THEN [ok |-> FALSE, error |-> "Not a git repository"]
    ELSE [ok |-> TRUE, error |-> ""]

-----------------------------------------------------------------------------
\* The run loop of run 1

Return_keepsLock(r) ==
    /\ pc' = "idle"
    /\ result' = r
    /\ states' = <<>>
    /\ action' = Unselected
    /\ UNCHANGED lockVars

\* runProject returns: the finally block releases the lock, and the snapshot
\* and the choice, locals of the run loop, are gone
Return(r) ==
    /\ pc' = "idle"
    /\ result' = r
    /\ states' = <<>>
    /\ action' = Unselected
    /\ lock' = releaseLock(lock)
    /\ activeLocks' = [activeLocks EXCEPT ![1] = FALSE]
    /\ UNCHANGED fsOps

runProject_releasesOnRefusal ==
    /\ pc = "idle"
    /\ \E planOk \in BOOLEAN, checkoutOk \in BOOLEAN :
         LET got == acquireLock(lock, now, 1) IN
         IF ~checkPrerequisites(env).ok
         THEN /\ result' = "prereq"
              /\ UNCHANGED <<pc, lockVars, head>>
         ELSE IF ~got.ok
         THEN /\ result' = "locked"
              /\ lock' = releaseLock(got.file)
              /\ fsOps' = got.ops
              /\ UNCHANGED <<pc, activeLocks, head>>
         ELSE IF ~planOk
         THEN /\ result' = "noplan"
              /\ lock' = releaseLock(got.file)
              /\ fsOps' = got.ops
              /\ UNCHANGED <<pc, activeLocks, head>>
         ELSE /\ result' = "running"
              /\ pc' = "derive"
              /\ lock' = got.file
              /\ fsOps' = got.ops
              /\ activeLocks' = [activeLocks EXCEPT ![1] = TRUE]
              /\ head' = IF checkoutOk THEN 0 ELSE head
    /\ acts' = 0
    /\ UNCHANGED <<planVars, worldVars, states, action, now, otherModels>>

\* runProject up to the run loop: checkPrerequisites, acquireLock, master plan,
\* checkout
runProject ==
    /\ pc = "idle"
    /\ \E planOk \in BOOLEAN, checkoutOk \in BOOLEAN :
         LET got == acquireLock(lock, now, 1) IN
         IF ~checkPrerequisites(env).ok
         THEN /\ result' = "prereq"
              /\ UNCHANGED <<pc, lockVars, head>>
         ELSE IF ~got.ok
         THEN /\ result' = "locked"
              /\ lock' = got.file
              /\ fsOps' = got.ops
              /\ UNCHANGED <<pc, activeLocks, head>>
         ELSE IF ~planOk
         THEN /\ result' = "noplan"
              /\ lock' = releaseLock(got.file)
              /\ fsOps' = got.ops
              /\ UNCHANGED <<pc, activeLocks, head>>
         ELSE /\ result' = "running"
              /\ pc' = "derive"
              /\ lock' = got.file
              /\ fsOps' = got.ops
              /\ activeLocks' = [activeLocks EXCEPT ![1] = TRUE]
              /\ head' = IF checkoutOk THEN 0 ELSE head
    /\ acts' = 0
    /\ UNCHANGED <<planVars, worldVars, states, action, now, otherModels>>

\* runOrchestration: deriveAllStates at the top of the loop
derive ==
    /\ pc = "derive"
    /\ \E fails \in [Items -> SUBSET Queries] :
         states' = deriveAllStates(fails)
    /\ pc' = "select"
    /\ UNCHANGED <<planVars, worldVars, head, action, acts, result, lockVars,
                   now, otherModels>>

\* runOrchestration: isComplete, then the choice of executeNextAction
executeNextAction ==
    /\ pc = "select"
    /\ IF isComplete(states)
       THEN Return("complete")
       ELSE IF nextAction(states, completed).type \in {"wait", "none"}
       THEN Return(nextAction(states, completed).type)
       ELSE /\ action' = nextAction(states, completed)
            /\ pc' = "act"
            /\ UNCHANGED <<states, result, lockVars>>
    /\ UNCHANGED <<planVars, worldVars, head, acts, now, otherModels>>

mergeApprovedPR_swallowsFailure ==
    /\ pc = "act" /\ action.type = "merge"
    /\ acts' = acts + 1
    /\ LET i == action.item IN
       \E ok \in BOOLEAN :
         /\ IF ok /\ pr[i].state = "open"
            THEN /\ merged' = [merged EXCEPT ![i] = TRUE]
                 /\ pr' = [pr EXCEPT ![i] = NoPR]
                 /\ branch' = [branch EXCEPT ![i] = FALSE]
                 /\ UNCHANGED enriched
            ELSE UNCHANGED worldVars
         /\ pc' = "derive"
         /\ UNCHANGED <<states, action, result, lockVars>>
    /\ UNCHANGED <<planVars, head, now, otherModels>>

\* mergeApprovedPR: gh pr merge --squash --delete-branch; a failure is thrown
mergeApprovedPR ==
    /\ pc = "act" /\ action.type = "merge"
    /\ acts' = acts + 1
    /\ LET i == action.item IN
       \E ok \in BOOLEAN :
         IF ok /\ pr[i].state = "open"
         THEN /\ merged' = [merged EXCEPT ![i] = TRUE]
              /\ pr' = [pr EXCEPT ![i] = NoPR]
              /\ branch' = [branch EXCEPT ![i] = FALSE]
              /\ pc' = "derive"
              /\ UNCHANGED <<enriched, states, action, result, lockVars>>
         ELSE /\ Return("error")
              /\ UNCHANGED worldVars
    /\ UNCHANGED <<planVars, head, now, otherModels>>

RevisionOutcomes ==
    {"viewfail", "nofeedback", "checkoutfail", "agentfail", "nochange",
     "pushfail", "commentfail", "pushed"}

runRevision_continues ==
    /\ pc = "act" /\ action.type = "revise"
    /\ acts' = acts + 1
    /\ LET i == action.item IN
       \E out \in RevisionOutcomes :
         /\ head' = CASE out \in {"viewfail", "nofeedback", "checkoutfail"} -> head
                      [] out \in {"agentfail", "nochange", "pushed"} -> 0
                      [] out \in {"pushfail", "commentfail"} -> i
         /\ IF out \in {"nofeedback", "nochange", "pushed"}
            THEN pc' = "derive" /\ UNCHANGED <<states, action, result, lockVars>>
            ELSE Return("error")
    /\ UNCHANGED <<planVars, worldVars, now, otherModels>>

\* runRevision: the run stops after it, whatever its outcome
runRevision ==
    /\ pc = "act" /\ action.type = "revise"
    /\ acts' = acts + 1
    /\ LET i == action.item IN
       \E out \in RevisionOutcomes :
         /\ head' = CASE out \in {"viewfail", "nofeedback", "checkoutfail"} -> head
                      [] out \in {"agentfail", "nochange", "pushed"} -> 0
                      [] out \in {"pushfail", "commentfail"} -> i
         /\ Return(IF out \in {"nofeedback", "nochange", "pushed"}
                   THEN "done" ELSE "error")
    /\ UNCHANGED <<planVars, worldVars, now, otherModels>>

EnrichOutcomes == {"agentfail", "notfound", "commitfail", "ok"}

enrichPRP_reusesSnapshot ==
    /\ pc = "act" /\ action.type = "enrich"
    /\ acts' = acts + 1
    /\ LET i == action.item IN
       \E out \in EnrichOutcomes :
         /\ enriched' = IF out \in {"commitfail", "ok"}
                        THEN [enriched EXCEPT ![i] = TRUE] ELSE enriched
         /\ IF out = "ok"
            THEN pc' = "select" /\ UNCHANGED <<states, action, result, lockVars>>
            ELSE Return("error")
    /\ UNCHANGED <<planVars, branch, pr, merged, head, now, otherModels>>

\* enrichPRP: the enriched file is in place before the commit and the push
enrichPRP ==
    /\ pc = "act" /\ action.type = "enrich"
    /\ acts' = acts + 1
    /\ LET i == action.item IN
       \E out \in EnrichOutcomes :
         /\ enriched' = IF out \in {"commitfail", "ok"}
                        THEN [enriched EXCEPT ![i] = TRUE] ELSE enriched
         /\ IF out = "ok"
            THEN pc' = "derive" /\ UNCHANGED <<states, action, result, lockVars>>
            ELSE Return("error")
    /\ UNCHANGED <<planVars, branch, pr, merged, head, now, otherModels>>

ExecuteOutcomes ==
    {"prefail", "agentfail", "nochange", "pushfail", "prfail", "ok"}

\* executePRP: branch, agent, commit, push, gh pr create; the run stops after it
executePRP ==
    /\ pc = "act" /\ action.type = "execute"
    /\ acts' = acts + 1
    /\ LET i == action.item IN
       \E out \in ExecuteOutcomes :
         \* gh pr create refuses a second open request for the same branch
         LET o == IF out = "ok" /\ pr[i].state = "open" THEN "prfail" ELSE out IN
         /\ head' = CASE o = "prefail" -> head
                      [] o \in {"agentfail", "nochange", "ok"} -> 0
                      [] o \in {"pushfail", "prfail"} -> i
         /\ branch' = IF o \in {"prfail", "ok"}
                      THEN [branch EXCEPT ![i] = TRUE] ELSE branch
         /\ pr' = IF o = "ok" THEN [pr EXCEPT ![i] = NewPR] ELSE pr
         /\ Return(IF o \in {"nochange", "ok"} THEN "done" ELSE "error")
    /\ UNCHANGED <<planVars, enriched, merged, now, otherModels>>

\* A reviewer labels or reviews an open request
Review ==
    /\ \E i \in Items, inp \in ReviewInputs :
         /\ pr[i].state = "open"
         /\ pr' = [pr EXCEPT ![i] = [state |-> "open", labels |-> inp.labels,
                                     decision |-> inp.decision]]
         /\ pr' # pr
    /\ UNCHANGED <<planVars, enriched, branch, merged, head, pc, states, action,
                   acts, result, lockVars, now, otherModels>>

\* A reviewer closes an open request without merging it
ClosePR ==
    /\ \E i \in Items :
         /\ pr[i].state = "open"
         /\ pr' = [pr EXCEPT ![i].state = "closed"]
    /\ UNCHANGED <<planVars, enriched, branch, merged, head, pc, states, action,
                   acts, result, lockVars, now, otherModels>>

\* The plan of the run model: A and B, each with or without the other as its
\* dependency, and A pre-declared completed or not
Init ==
    /\ prps = <<"A", "B">>
    /\ dependsOn \in [{1, 2} -> {{}, {"A"}, {"B"}}]
    /\ \A i \in Items : prps[i] \notin dependsOn[i]
    /\ completed \in {{}, {"A"}}
    /\ enriched = [i \in Items |-> FALSE]
    /\ branch = [i \in Items |-> FALSE]
    /\ pr = [i \in Items |-> NoPR]
    /\ merged = [i \in Items |-> FALSE]
    /\ head = 0
    /\ pc = "idle"
    /\ states = <<>>
    /\ action = Unselected
    /\ acts = 0
    /\ result = "never"
    /\ now = LockMaxAgeMinutes
    /\ lock \in {NoLock, LockBy(2, 0), LockBy(2, now)}
    /\ activeLocks = [p \in Procs |-> FALSE]
    /\ fsOps = <<>>
    /\ lpc = [p \in Procs |-> "idle"]
    /\ apc = [p \in Procs |-> "idle"]
    /\ env = Healthy
    /\ flow = NoFlow
    /\ batch = NoBatch
    /\ agent = NoAgent
    /\ validation = NoValidation
    /\ names = NoNames

Next ==
    \/ runProject
    \/ derive
    \/ executeNextAction
    \/ mergeApprovedPR
    \/ runRevision
    \/ enrichPRP
    \/ executePRP
    \/ Review
    \/ ClosePR

Spec == Init /\ [][Next]_vars

-----------------------------------------------------------------------------
\* The selector on its own: snapshots drawn from the shapes derivePRPState can
\* return, then one choice

\* branch, request and review fields of a derived state
Shapes ==
    { [branch |-> FALSE, prNumber |-> FALSE, prState |-> "undefined",
       reviewState |-> "undefined"],
      [branch |-> FALSE, prNumber |-> TRUE, prState |-> "merged",
       reviewState |-> "undefined"],
      [branch |-> TRUE, prNumber |-> TRUE, prState |-> "closed",
       reviewState |-> "approved"] }
    \cup
    { [branch |-> TRUE, prNumber |-> TRUE, prState |-> "open", reviewState |-> r] :
        r \in {"approved", "changes_requested", "pending", "none"} }

SelDepends ==
    { d \in [DOMAIN PlanIds -> SUBSET Ids] :
        /\ d[1] \in {{}, {"C"}}
        /\ d[2] \in {{}, {"A"}}
        /\ d[3] \in {{}, {"A", "B"}} }

InitSel ==
    /\ prps = PlanIds
    /\ dependsOn \in SelDepends
    /\ completed \in {{}, {"A"}}
    /\ \E en \in [DOMAIN PlanIds -> BOOLEAN], sh \in [DOMAIN PlanIds -> Shapes] :
         states = [i \in DOMAIN PlanIds |->
                     [ id |-> PlanIds[i],
                       dependsOn |-> dependsOn[i],
                       isEnriched |-> en[i],
                       branch |-> sh[i].branch,
                       prNumber |-> sh[i].prNumber,
                       prState |-> sh[i].prState,
                       reviewState |-> sh[i].reviewState ]]
    /\ enriched = [i \in Items |-> FALSE]
    /\ branch = [i \in Items |-> FALSE]
    /\ pr = [i \in Items |-> NoPR]
    /\ merged = [i \in Items |-> FALSE]
    /\ head = 0
    /\ pc = "select"
    /\ action = Unselected
    /\ acts = 0
    /\ result = "running"
    /\ now = 0
    /\ lock = NoLock
    /\ activeLocks = [p \in Procs |-> FALSE]
    /\ fsOps = <<>>
    /\ lpc = [p \in Procs |-> "idle"]
    /\ apc = [p \in Procs |-> "idle"]
    /\ env = Healthy
    /\ flow = NoFlow
    /\ batch = NoBatch
    /\ agent = NoAgent
    /\ validation = NoValidation
    /\ names = NoNames

\* runOrchestration and executeNextAction up to the choice
selectNext ==
    /\ pc = "select"
    /\ action' = IF isComplete(states) THEN [type |-> "complete", item |-> 0]
                 ELSE nextAction(states, completed)
    /\ pc' = "selected"
    /\ UNCHANGED <<planVars, worldVars, head, states, acts, result, lockVars,
                   now, otherModels>>

NextSel == selectNext

SpecSel == InitSel /\ [][NextSel]_vars

-----------------------------------------------------------------------------
\* Claims about the selector

OpenWith(sts, reviews) ==
    {i \in DOMAIN sts : sts[i].prState = "open" /\ sts[i].reviewState \in reviews}

\* Items with no open and no merged request whose every dependency is
\* pre-declared completed or derived as merged
ReadyItems(sts, done) ==
    {i \in DOMAIN sts :
       /\ sts[i].prState \notin {"open", "merged"}
       /\ \A d \in sts[i].dependsOn :
            d \in done \/ \E j \in DOMAIN sts : sts[j].id = d /\ sts[j].prState = "merged"}

IsFirstOf(i, S) == i \in S /\ \A j \in S : i <= j

AllMerged(sts) == \A i \in DOMAIN sts : sts[i].prState = "merged"

\* C1: on every snapshot that is not complete the choice is Merge of the first
\* open approved item, else Revise of the first open changes-requested item,
\* else Wait if an open item is pending or none, else Enrich-or-Execute of the
\* first ready item, else None.
C1_PriorityOrder ==
    (pc = "selected" /\ ~AllMerged(states)) =>
        LET approved == OpenWith(states, {"approved"})
            changes == OpenWith(states, {"changes_requested"})
            waiting == OpenWith(states, {"pending", "none"})
            ready == ReadyItems(states, completed)
        IN IF approved # {}
               THEN action.type = "merge" /\ IsFirstOf(action.item, approved)
           ELSE IF changes # {}
               THEN action.type = "revise" /\ IsFirstOf(action.item, changes)
           ELSE IF waiting # {}
               THEN action.type = "wait"
           ELSE IF ready # {}
               THEN /\ action.type \in {"enrich", "execute"}
                    /\ IsFirstOf(action.item, ready)
           ELSE action.type = "none"

\* An approved and a changes-requested request at once, and Merge of the second
\* item chosen over Revise of the first.
C1_Witness ==
    /\ pc = "selected"
    /\ states[1].prState = "open" /\ states[1].reviewState = "changes_requested"
    /\ states[2].prState = "open" /\ states[2].reviewState = "approved"
    /\ action = [type |-> "merge", item |-> 2]

\* C4: with no open request in the snapshot, the chosen item is the first ready
\* one, and the action is Enrich exactly when it lacks the enriched file,
\* Execute otherwise.
C4_EnrichOrExecute ==
    (/\ pc = "selected"
     /\ OpenWith(states, {"approved", "changes_requested", "pending", "none"}) = {}
     /\ ReadyItems(states, completed) # {}) =>
        /\ IsFirstOf(action.item, ReadyItems(states, completed))
        /\ action.type = IF states[action.item].isEnriched THEN "execute" ELSE "enrich"

\* A merged, B not enriched and depending on A: Enrich(B).
C4_Witness ==
    /\ pc = "selected"
    /\ states[1].prState = "merged"
    /\ states[2].dependsOn = {"A"} /\ ~states[2].isEnriched
    /\ states[2].prState = "undefined"
    /\ action = [type |-> "enrich", item |-> 2]

-----------------------------------------------------------------------------
\* Claims about the run loop

OpenRequests == {i \in Items : pr[i].state = "open"}

\* The snapshot has an open request that is pending or none, and no open
\* request that is approved or changes-requested
PendingOnly(sts) ==
    /\ OpenWith(sts, {"pending", "none"}) # {}
    /\ OpenWith(sts, {"approved", "changes_requested"}) = {}

\* C2: from a snapshot with an open pending-or-none request and no approved or
\* changes-requested one, the run cycle invokes no workflow, changes nothing in
\* git or GitHub, and the run returns with Wait.
C2_WaitStartsNoWork ==
    [][(pc = "select" /\ PendingOnly(states) /\ pc' # pc) =>
          /\ pc' = "idle"
          /\ result' = "wait"
          /\ acts' = acts
          /\ worldVars' = worldVars
          /\ head' = head]_vars

\* The run returned Wait on an open untouched request of A while B, which
\* depends on nothing unmerged, has no branch and no request.
C2_Witness ==
    /\ pc = "idle" /\ result = "wait"
    /\ pr[1] = NewPR
    /\ pr[2] = NoPR /\ ~branch[2] /\ ~merged[2]
    /\ dependsOn[2] = {}

\* C3: an item chosen for Enrich or Execute has every dependency either in the
\* pre-declared completed set or derived as merged in the snapshot of the cycle.
C3_DependencyGating ==
    (pc = "act" /\ action.type \in {"enrich", "execute"}) =>
        \A d \in dependsOn[action.item] :
            \/ d \in completed
            \/ \E j \in DOMAIN states :
                 states[j].id = d /\ states[j].prState = "merged"

\* B depends on A, A is not pre-declared completed, and B is chosen for Execute.
C3_Witness ==
    /\ pc = "act" /\ action = [type |-> "execute", item |-> 2]
    /\ dependsOn[2] = {"A"} /\ completed = {}

\* C5, as claimed: at most one request is open at any time, and Execute is not
\* started while a request is open.
C5_AtMostOneOpenRequest ==
    /\ Cardinality(OpenRequests) <= 1
    /\ (pc = "act" /\ action.type = "execute") => OpenRequests = {}

\* C6, as claimed: a runProject invokes at most one workflow.
C6_OneActionPerRun == acts <= 1

\* C14: whatever queries fail, the derivation pass returns to the run loop with
\* one state per plan item; each state has the item's plan data, and each of its
\* branch, request and review fields is what git and GitHub hold or is absent.
C14_DerivationTotal ==
    [][(pc = "derive" /\ pc' # pc) =>
          /\ pc' = "select"
          /\ DOMAIN states' = Items
          /\ \A i \in Items :
               LET s == states'[i] IN
               /\ s.id = prps[i]
               /\ s.dependsOn = dependsOn[i]
               /\ s.isEnriched = enriched[i]
               /\ s.branch \in {branch[i], FALSE}
               /\ s.prState \in {"open", "closed"} =>
                      (s.branch /\ s.prState = pr[i].state)
               /\ s.prState = "merged" => merged[i]
               /\ s.reviewState # "undefined" =>
                      s.prState \in {"open", "closed"}
               /\ s.prNumber <=> s.prState # "undefined"]_vars

\* Every query for A failed while A has a branch and an open request: the
\* snapshot shows A with no branch and no request.
C14_Witness ==
    /\ pc = "select"
    /\ branch[1] /\ pr[1].state = "open"
    /\ ~states[1].branch /\ ~states[1].prNumber
    /\ states[1].prState = "undefined" /\ states[1].reviewState = "undefined"

\* C15, as claimed: in every derived state a request is present only if a
\* branch is present.
C15_RequestOnlyWithBranch ==
    \A i \in DOMAIN states : states[i].prNumber => states[i].branch

\* C15, amended: in every derived state an open or closed request is present
\* only if a branch is present; a request present without a branch is a merged
\* one, found by the search for merged requests, and has no review state.
C15_UnmergedRequestOnlyWithBranch ==
    \A i \in DOMAIN states :
        /\ states[i].prState \in {"open", "closed"} => states[i].branch
        /\ (states[i].prNumber /\ ~states[i].branch) =>
               (states[i].prState = "merged" /\ states[i].reviewState = "undefined")

\* A is derived as merged with its branch deleted, B as open on its branch.
C15_Witness ==
    /\ pc = "select"
    /\ states[1].prNumber /\ states[1].prState = "merged" /\ ~states[1].branch
    /\ states[2].prNumber /\ states[2].prState = "open" /\ states[2].branch

\* C18: the run loop finds the plan complete exactly when every declared item
\* is derived as merged, and it then returns without invoking a workflow or
\* changing anything in git or GitHub.
C18_CompleteIffAllMerged ==
    [][(pc = "select" /\ pc' # pc) =>
          /\ (result' = "complete") <=>
                 (\A i \in Items : states[i].prState = "merged")
          /\ (\A i \in Items : states[i].prState = "merged") =>
                 /\ pc' = "idle"
                 /\ acts' = acts
                 /\ worldVars' = worldVars
                 /\ head' = head]_vars

\* A run found A and B merged and returned complete without a workflow.
C18_Witness ==
    /\ pc = "idle" /\ result = "complete" /\ acts = 0
    /\ merged[1] /\ merged[2]

\* C19: within a run a choice is made only on a snapshot just derived, a
\* workflow starts only from such a choice, and after a workflow the run either
\* derives anew or returns; so a snapshot that shows an item without enrichment
\* is never used after the enrichment of that item.
C19_FreshSnapshotPerAction ==
    [][/\ (pc' = "select" /\ pc # "select") => pc = "derive"
       /\ (pc' = "act" /\ pc # "act") =>
              /\ pc = "select" /\ states' = states
              /\ action'.type = "enrich" => ~enriched[action'.item]
       /\ (pc = "act" /\ pc' # "act") => pc' \in {"derive", "idle"}
       /\ acts' > acts => pc = "act"]_vars

\* The second workflow of a run, Execute of A, is chosen on a snapshot that
\* shows the enrichment the first workflow of the run made.
C19_Witness ==
    /\ pc = "act" /\ acts = 1 /\ action = [type |-> "execute", item |-> 1]
    /\ states[1].isEnriched
    /\ ~merged[1] /\ ~merged[2] /\ ~branch[2]

\* C23: a derivation pass returns as many states as the plan declares items,
\* the i-th state being that of the i-th declared item.
C23_OneStatePerItemInOrder ==
    [][(pc = "derive" /\ pc' = "select") =>
          /\ Len(states') = Len(prps)
          /\ \A i \in 1..Len(prps) : states'[i].id = prps[i]]_vars

\* The snapshot of the plan A, B holds the state of A, then that of B.
C23_Witness ==
    /\ pc = "select" /\ prps = <<"A", "B">>
    /\ Len(states) = 2 /\ states[1].id = "A" /\ states[2].id = "B"

C27_LifecycleOrder ==
    [][/\ (pc' = "act" /\ pc # "act") =>
              LET st == states[action'.item] IN
              /\ action'.type = "execute" => st.isEnriched
              /\ action'.type \in {"revise", "merge"} => st.prState = "open"
              /\ action'.type = "merge" => st.reviewState = "approved"
       /\ \A i \in Items :
              /\ (pr'[i].state = "open" /\ pr[i].state # "open") =>
                     /\ pc = "act" /\ action = [type |-> "execute", item |-> i]
                     /\ branch'[i]
              /\ (branch'[i] /\ ~branch[i]) => enriched[i]]_vars

\* Merge is chosen for A, which is enriched, has its branch and an approved
\* open request.
C27_Witness ==
    /\ pc = "act" /\ action = [type |-> "merge", item |-> 1]
    /\ enriched[1] /\ branch[1] /\ pr[1].state = "open"
    /\ states[1].reviewState = "approved"

\* C30: when gh pr merge fails, the run returns with the error without another
\* derivation or workflow, nothing in git or GitHub has changed, and the lock
\* file is released.
C30_MergeFailureFatal ==
    [][(/\ pc = "act" /\ action.type = "merge" /\ pc' # "act"
        /\ pr'[action.item] = pr[action.item]) =>
           /\ pc' = "idle"
           /\ result' = "error"
           /\ acts' = acts + 1
           /\ worldVars' = worldVars
           /\ ~lock'.exists /\ ~activeLocks'[1]]_vars

\* The one workflow of the run was the Merge of A's approved request; it
\* failed, the request is still open and the lock file is gone.
C30_Witness ==
    /\ pc = "idle" /\ result = "error" /\ acts = 1
    /\ pr[1].state = "open" /\ reviewState(pr[1].labels, pr[1].decision) = "approved"
    /\ pr[2].state # "open" /\ ~merged[1]
    /\ ~lock.exists

\* C34: whenever enrichPRP commits and pushes the enriched file, the checked-out
\* branch is the default branch
C34_EnrichCommitsOnMain ==
    [][(pc = "act" /\ action.type = "enrich" /\ acts' = acts + 1 /\ pc' = "derive")
       => head = 0]_vars

\* C35: a runProject that finds a lock file younger than 45 minutes returns at
\* once: no snapshot, no choice, no workflow, nothing changed in the repository
\* or on the platform, and the lock file and activeLocks as they were; after it
\* the holder's lock file is still there
C35_RefusedRunDoesNothing ==
    [][/\ (/\ pc = "idle" /\ <<acts, result, fsOps>>' # <<acts, result, fsOps>>
           /\ lock.exists /\ now - lock.mtime < LockMaxAgeMinutes) =>
              /\ result' = "locked" /\ pc' = "idle" /\ acts' = 0
              /\ states' = states /\ action' = action
              /\ worldVars' = worldVars /\ head' = head
              /\ lock' = lock /\ activeLocks' = activeLocks
       /\ result' = "locked" =>
              pc' = "idle" /\ lock'.exists /\ lock'.pid # 1 /\ ~activeLocks'[1]]_vars

\* Run 1 was refused on the lock file another run had just written, which it
\* only read
C35_Witness ==
    /\ result = "locked" /\ pc = "idle" /\ acts = 0
    /\ lock = LockBy(2, now) /\ fsOps = <<"read">>

\* What a run can still use up: the open requests and the items without an
\* enriched file
Variant ==
    Cardinality({i \in Items : pr[i].state = "open"})
    + Cardinality({i \in Items : ~enriched[i]})

\* C37: the run loop goes round again only after a workflow that made the
\* variant smaller, nothing inside a run makes it larger, and so a run invokes
\* at most one workflow more than twice the number of items before it returns
C37_RunTerminates ==
    [][/\ (pc = "act" /\ pc' = "derive") => Variant' < Variant
       /\ (pc # "idle" /\ pc' # "idle") => Variant' <= Variant
       /\ acts' <= 2 * Len(prps) + 1]_vars

\* A run has returned after three workflows: a merge, an enrichment and the
\* execution that ended it
C37_Witness ==
    /\ pc = "idle" /\ result = "done" /\ acts = 3
    /\ merged[1] /\ enriched[2] /\ pr[2].state = "open"

\* C38: an item whose id is in the plan's completed set is never chosen for
\* Enrich or Execute
C38_CompletedNeverSelected ==
    action.type \in {"enrich", "execute"} => prps[action.item] \notin completed

\* The ways a runProject that acquired the lock returns: plan complete, Wait,
\* None, no master plan, a workflow that returned, a workflow that threw
ReturnsWithLock == {"complete", "wait", "none", "noplan", "done", "error"}

\* C12: after every return of a runProject that had acquired the lock, on each
\* of its paths, the lock file is gone and out of activeLocks.
C12_ReleasedOnEveryReturn ==
    (pc = "idle" /\ result \in ReturnsWithLock) =>
        (~lock.exists /\ ~activeLocks[1])

\* The run took over a stale lock, its one workflow threw, and the lock file is
\* gone after the return.
C12_Witness ==
    /\ pc = "idle" /\ result = "error" /\ acts = 1
    /\ fsOps = <<"unlink", "write">>
    /\ ~lock.exists /\ ~activeLocks[1]

-----------------------------------------------------------------------------
\* The lock over time: two runs of one project, and the clock

\* Upper end of the clock of the lock model, in minutes
MaxClock == 60

\* DEFAULT_CONFIG.defaults and runValidation: the timeouts, in minutes
EnrichmentTimeoutMinutes == 25

ExecutionTimeoutMinutes == 20

RevisionTimeoutMinutes == 15

BuildTimeoutMinutes == 5

TestTimeoutMinutes == 10

\* The longest a step of a run can take: the agent's timeout for the workflow,
\* build plus test for the validation inside executePRP; gh pr merge is short
Budget(step) ==
    CASE step = "merge" -> 0
      [] step = "enrich" -> EnrichmentTimeoutMinutes
      [] step = "revise" -> RevisionTimeoutMinutes
      [] step = "agent" -> ExecutionTimeoutMinutes
      [] step = "validate" -> BuildTimeoutMinutes + TestTimeoutMinutes

Idle == [at |-> "idle", last |-> "none", res |-> "none"]

\* The steps the run loop can take after step `last`: it continues after a
\* merge with any workflow, after an enrichment with executePRP of the enriched
\* item; executePRP validates after its agent run, and the run returns after
\* executePRP and after runRevision
StepsAfter(last) ==
    IF last \in {"none", "merge"} THEN {"merge", "enrich", "revise", "agent"}
    ELSE IF last = "enrich" THEN {"agent"}
    ELSE IF last = "agent" THEN {"validate"}
    ELSE {}

InitLock ==
    /\ prps = <<>>
    /\ dependsOn = <<>>
    /\ completed = {}
    /\ enriched = <<>>
    /\ branch = <<>>
    /\ pr = <<>>
    /\ merged = <<>>
    /\ head = 0
    /\ pc = "idle"
    /\ states = <<>>
    /\ action = Unselected
    /\ acts = 0
    /\ result = "never"
    /\ now = 0
    /\ lock = NoLock
    /\ activeLocks = [p \in Procs |-> FALSE]
    /\ fsOps = <<>>
    /\ lpc = [p \in Procs |-> Idle]
    /\ apc = [p \in Procs |-> "idle"]
    /\ env = Healthy
    /\ flow = NoFlow
    /\ batch = NoBatch
    /\ agent = NoAgent
    /\ validation = NoValidation
    /\ names = NoNames

lockModelFrame == <<planVars, worldVars, head, pc, states, action, acts, result, apc,
                    flow, batch, agent, validation, names>>

\* runProject of process p: checkPrerequisites, acquireLock, and into
\* runOrchestration if it got the lock
lockRunProject(p) ==
    /\ lpc[p].at = "idle"
    /\ LET got == acquireLock(lock, now, p) IN
         IF ~checkPrerequisites(env).ok
         THEN /\ lpc' = [lpc EXCEPT ![p] =
                           [at |-> "idle", last |-> "none", res |-> "prereq"]]
              /\ UNCHANGED lockVars
         ELSE /\ lock' = got.file
              /\ fsOps' = got.ops
              /\ activeLocks' = IF got.ok THEN [activeLocks EXCEPT ![p] = TRUE]
                                ELSE activeLocks
              /\ lpc' = [lpc EXCEPT ![p] =
                           IF got.ok THEN [at |-> "run", last |-> "none", res |-> "true"]
                           ELSE [at |-> "idle", last |-> "none", res |-> "false"]]
    /\ UNCHANGED <<now, lockModelFrame, env>>

\* One step of the run of p, taking no time or its whole budget
lockStep(p) ==
    /\ lpc[p].at = "run"
    /\ \E step \in StepsAfter(lpc[p].last) : \E d \in {0, Budget(step)} :
         /\ now + d <= MaxClock
         /\ now' = now + d
         /\ lpc' = [lpc EXCEPT ![p].last = step]
    /\ UNCHANGED <<lockVars, lockModelFrame, env>>

\* runProject of p returns: releaseLock in the finally block
lockReturn(p) ==
    /\ lpc[p].at = "run"
    /\ lock' = releaseLock(lock)
    /\ activeLocks' = [activeLocks EXCEPT ![p] = FALSE]
    /\ lpc' = [lpc EXCEPT ![p] = Idle]
    /\ UNCHANGED <<fsOps, now, lockModelFrame, env>>

\* The process of p is killed inside its run: the lock file stays
lockKill(p) ==
    /\ lpc[p].at = "run"
    /\ activeLocks' = [activeLocks EXCEPT ![p] = FALSE]
    /\ lpc' = [lpc EXCEPT ![p] = Idle]
    /\ UNCHANGED <<lock, fsOps, now, lockModelFrame, env>>

\* A minute passes while no run is in progress
Tick ==
    /\ \A p \in Procs : lpc[p].at = "idle"
    /\ now < MaxClock
    /\ now' = now + 1
    /\ UNCHANGED <<lockVars, lpc, lockModelFrame, env>>

\* The login of gh expires or is renewed, or .git is lost or restored, while
\* no run is in progress
lockEnv ==
    /\ \A p \in Procs : lpc[p].at = "idle"
    /\ \E e \in Envs : e # env /\ env' = e
    /\ UNCHANGED <<lockVars, lpc, now, lockModelFrame>>

NextLock ==
    \/ \E p \in Procs : lockRunProject(p)
    \/ \E p \in Procs : lockStep(p)
    \/ \E p \in Procs : lockReturn(p)
    \/ \E p \in Procs : lockKill(p)
    \/ Tick
    \/ lockEnv

SpecLock == InitLock /\ [][NextLock]_vars

LockAge == now - lock.mtime

\* C13, as claimed: a runProject whose gh auth status fails, or whose project
\* path is no git repository, returns with the error and acquires no lock.
C13_PrerequisiteShortCircuit ==
    [][\A p \in Procs :
         (lpc[p].at = "idle" /\ lpc'[p] # lpc[p] /\ ~(env.auth /\ env.repo)) =>
             /\ lpc'[p].at = "idle" /\ lpc'[p].res = "prereq"
             /\ lockVars' = lockVars]_vars

\* C8, as claimed: while a run holds the lock no other run acquires it.
C8_ExclusiveForWholeRun == Cardinality({p \in Procs : lpc[p].at = "run"}) <= 1

\* C9: acquireLock on a lock file younger than 45 minutes returns false, leaves
\* the file as it is and adds nothing to activeLocks.
C9_LiveLockRefused ==
    [][\A p \in Procs :
         (/\ lpc[p].at = "idle" /\ lpc'[p] # lpc[p]
          /\ lock.exists /\ LockAge < 45) =>
             /\ lpc'[p].res = "false" /\ lpc'[p].at = "idle"
             /\ lock' = lock
             /\ activeLocks' = activeLocks]_vars

\* Process 2 was refused on the lock process 1 wrote 44 minutes earlier.
C9_Witness ==
    /\ lpc[2].res = "false" /\ lpc[2].at = "idle"
    /\ lock.exists /\ lock.pid = 1 /\ LockAge = 44
    /\ ~activeLocks[2]

\* C10: acquireLock on a lock file aged 45 minutes or more unlinks it, then
\* writes a file with the caller's pid and the current time, and returns true;
\* on an absent lock file it writes the file and returns true.
C10_StaleOrAbsentAcquired ==
    [][\A p \in Procs :
         (/\ lpc[p].at = "idle" /\ lpc'[p] # lpc[p]
          /\ (~lock.exists \/ LockAge >= 45)) =>
             /\ lpc'[p].res = "true" /\ lpc'[p].at = "run"
             /\ lock' = [exists |-> TRUE, pid |-> p, mtime |-> now]
             /\ activeLocks'[p]
             /\ fsOps' = IF lock.exists THEN <<"unlink", "write">>
                         ELSE <<"write">>]_vars

\* Process 2 took over, at minute 45, the lock a killed process left at minute 0.
C10_Witness ==
    /\ lpc[2].at = "run" /\ lpc[2].res = "true" /\ lpc[1].at = "idle"
    /\ lock = [exists |-> TRUE, pid |-> 2, mtime |-> 45]
    /\ fsOps = <<"unlink", "write">>
    /\ now = 45

\* C36: a run that returns while the lock file carries the pid of another run
\* leaves that file in place
C36_ReleaseOnlyOwnLock ==
    [][\A p \in Procs :
         (/\ lpc[p].at = "run" /\ lpc'[p].at = "idle"
          /\ lock.exists /\ lock.pid # p) => lock' = lock]_vars

-----------------------------------------------------------------------------
\* acquireLock step by step: two processes call it on one lock file, each file
\* operation on its own

InitRace ==
    /\ prps = <<>>
    /\ dependsOn = <<>>
    /\ completed = {}
    /\ enriched = <<>>
    /\ branch = <<>>
    /\ pr = <<>>
    /\ merged = <<>>
    /\ head = 0
    /\ pc = "idle"
    /\ states = <<>>
    /\ action = Unselected
    /\ acts = 0
    /\ result = "never"
    /\ now = LockMaxAgeMinutes
    /\ lock \in {NoLock, LockBy(3, 0)}
    /\ activeLocks = [p \in Procs |-> FALSE]
    /\ fsOps = <<>>
    /\ lpc = [p \in Procs |-> Idle]
    /\ apc = [p \in Procs |-> "idle"]
    /\ env = Healthy
    /\ flow = NoFlow
    /\ batch = NoBatch
    /\ agent = NoAgent
    /\ validation = NoValidation
    /\ names = NoNames

raceFrame == <<planVars, worldVars, head, pc, states, action, acts, result, now, lpc,
               env, flow, batch, agent, validation, names>>

\* fs.existsSync(lockFile)
raceExists(p) ==
    /\ apc[p] = "idle"
    /\ apc' = [apc EXCEPT ![p] = IF lock.exists THEN "stat" ELSE "write"]
    /\ UNCHANGED <<lockVars, raceFrame>>

\* fs.statSync(lockFile).mtimeMs and the comparison with maxAge; statSync
\* throws when the file is gone
raceStat(p) ==
    /\ apc[p] = "stat"
    /\ apc' = [apc EXCEPT ![p] =
                 IF ~lock.exists THEN "threw"
                 ELSE IF now - lock.mtime < LockMaxAgeMinutes THEN "read"
                 ELSE "unlink"]
    /\ UNCHANGED <<lockVars, raceFrame>>

\* fs.readFileSync(lockFile), the warning, return false; readFileSync throws
\* when the file is gone
raceRefuse(p) ==
    /\ apc[p] = "read"
    /\ apc' = [apc EXCEPT ![p] = IF lock.exists THEN "refused" ELSE "threw"]
    /\ UNCHANGED <<lockVars, raceFrame>>

\* fs.unlinkSync(lockFile) of the stale file; unlinkSync throws when it is gone
raceUnlink(p) ==
    /\ apc[p] = "unlink"
    /\ IF lock.exists
       THEN /\ lock' = NoLock
            /\ apc' = [apc EXCEPT ![p] = "write"]
       ELSE /\ apc' = [apc EXCEPT ![p] = "threw"]
            /\ UNCHANGED lock
    /\ UNCHANGED <<activeLocks, fsOps, raceFrame>>

\* fs.writeFileSync(lockFile, pid:now), activeLocks.add, return true: the
\* caller enters runOrchestration
raceWrite(p) ==
    /\ apc[p] = "write"
    /\ lock' = LockBy(p, now)
    /\ activeLocks' = [activeLocks EXCEPT ![p] = TRUE]
    /\ apc' = [apc EXCEPT ![p] = "running"]
    /\ UNCHANGED <<fsOps, raceFrame>>

\* runProject returns after a refusal or a throw of acquireLock: no release
raceGiveUp(p) ==
    /\ apc[p] \in {"refused", "threw"}
    /\ apc' = [apc EXCEPT ![p] = "idle"]
    /\ UNCHANGED <<lockVars, raceFrame>>

\* runOrchestration is over: releaseLock unlinks the file if it exists
raceRelease(p) ==
    /\ apc[p] = "running"
    /\ lock' = releaseLock(lock)
    /\ activeLocks' = [activeLocks EXCEPT ![p] = FALSE]
    /\ apc' = [apc EXCEPT ![p] = "idle"]
    /\ UNCHANGED <<fsOps, raceFrame>>

\* A minute passes
raceTick ==
    /\ now < MaxClock
    /\ now' = now + 1
    /\ UNCHANGED <<lockVars, planVars, worldVars, head, pc, states, action, acts,
                   result, lpc, apc, env, flow, batch, agent, validation, names>>

NextRace ==
    \/ \E p \in Procs : raceExists(p)
    \/ \E p \in Procs : raceStat(p)
    \/ \E p \in Procs : raceRefuse(p)
    \/ \E p \in Procs : raceUnlink(p)
    \/ \E p \in Procs : raceWrite(p)
    \/ \E p \in Procs : raceGiveUp(p)
    \/ \E p \in Procs : raceRelease(p)
    \/ raceTick

SpecRace == InitRace /\ [][NextRace]_vars

\* C7, as claimed: of two concurrent acquireLock calls at most one returns
\* true, so at most one run is inside runOrchestration.
C7_AtMostOneAcquires == Cardinality({p \in Procs : apc[p] = "running"}) <= 1

-----------------------------------------------------------------------------
\* The review decision: one derivation pass and one choice of a run on a plan
\* of one item whose open request carries any labels and any platform decision

\* Label names as derivePRPState compares them, and one that bears no decision
LabelNames == {"approved", "lgtm", "changes-requested", "needs-changes", "wip"}

\* reviewDecision of gh pr list, upper-cased; the empty string when there is none
PlatformDecisions == {"APPROVED", "CHANGES_REQUESTED", "REVIEW_REQUIRED", ""}

InitReview ==
    /\ prps = <<"A">>
    /\ dependsOn = <<{}>>
    /\ completed = {}
    /\ enriched = <<TRUE>>
    /\ branch = <<TRUE>>
    /\ \E ls \in SUBSET LabelNames, d \in PlatformDecisions :
         pr = <<[state |-> "open", labels |-> ls, decision |-> d]>>
    /\ merged = <<FALSE>>
    /\ head = 0
    /\ pc = "derive"
    /\ states = <<>>
    /\ action = Unselected
    /\ acts = 0
    /\ result = "running"
    /\ now = 0
    /\ lock = LockBy(1, now)
    /\ activeLocks = [p \in Procs |-> p = 1]
    /\ fsOps = <<"write">>
    /\ lpc = [p \in Procs |-> "idle"]
    /\ apc = [p \in Procs |-> "idle"]
    /\ env = Healthy
    /\ flow = NoFlow
    /\ batch = NoBatch
    /\ agent = NoAgent
    /\ validation = NoValidation
    /\ names = NoNames

NextReview ==
    \/ derive
    \/ executeNextAction

SpecReview == InitReview /\ [][NextReview]_vars

\* The decision the claim gives for a set of labels and a platform decision
LabelsFirst(labels, decision) ==
    IF labels \cap {"approved", "lgtm"} # {} THEN "approved"
    ELSE IF labels \cap {"changes-requested", "needs-changes"} # {}
        THEN "changes_requested"
    ELSE CASE decision = "APPROVED" -> "approved"
           [] decision = "CHANGES_REQUESTED" -> "changes_requested"
           [] decision = "REVIEW_REQUIRED" -> "pending"
           [] OTHER -> "none"

\* C16: the decision derived for an open request is approved if it carries
\* approved or lgtm, else changes_requested if it carries changes-requested or
\* needs-changes, whatever the platform decision, and only without such a label
\* the platform decision (APPROVED, CHANGES_REQUESTED, REVIEW_REQUIRED to
\* pending, anything else to none); a request labelled approved with platform
\* decision CHANGES_REQUESTED, once found, is chosen for Merge.
C16_LabelsOverPlatform ==
    [][/\ (pc = "derive" /\ pc' = "select" /\ states'[1].prState = "open") =>
              states'[1].reviewState = LabelsFirst(pr[1].labels, pr[1].decision)
       /\ (/\ pc = "select" /\ pc' # pc /\ states[1].prState = "open"
           /\ "approved" \in pr[1].labels
           /\ pr[1].decision = "CHANGES_REQUESTED") =>
              (pc' = "act" /\ action' = [type |-> "merge", item |-> 1])]_vars

\* The request is labelled approved, the platform says CHANGES_REQUESTED, and
\* Merge is chosen.
C16_Witness ==
    /\ pc = "act" /\ action = [type |-> "merge", item |-> 1]
    /\ pr[1].labels = {"approved"} /\ pr[1].decision = "CHANGES_REQUESTED"
    /\ states[1].reviewState = "approved"

\* Labels of both kinds on one request
BothKinds(labels) ==
    /\ labels \cap {"approved", "lgtm"} # {}
    /\ labels \cap {"changes-requested", "needs-changes"} # {}

\* C39: an open request that carries an approving and a changes-requesting
\* label is derived as approved and, once found, chosen for Merge, not Revise
C39_ApprovingLabelWins ==
    [][/\ (/\ pc = "derive" /\ pc' = "select" /\ states'[1].prState = "open"
           /\ BothKinds(pr[1].labels)) =>
              states'[1].reviewState = "approved"
       /\ (/\ pc = "select" /\ pc' # pc /\ states[1].prState = "open"
           /\ BothKinds(pr[1].labels)) =>
              (pc' = "act" /\ action' = [type |-> "merge", item |-> 1])]_vars

\* A request labelled lgtm and needs-changes has been chosen for Merge
C39_Witness ==
    /\ pc = "act" /\ action = [type |-> "merge", item |-> 1]
    /\ {"lgtm", "needs-changes"} \subseteq pr[1].labels
    /\ "approved" \notin pr[1].labels

-----------------------------------------------------------------------------
\* Re-invocation after an interrupted Execute: the branch of A, the first item
\* of the plan, is on the remote, no request was opened, and no reviewer acts.
\* Every command of the runs that follow succeeds.

InitResume ==
    /\ prps = <<"A", "B">>
    /\ dependsOn \in {<<{}, {}>>, <<{}, {"A"}>>}
    /\ completed \in {{}, {"B"}}
    /\ enriched \in {<<TRUE, FALSE>>, <<TRUE, TRUE>>}
    /\ branch = <<TRUE, FALSE>>
    /\ pr = [i \in Items |-> NoPR]
    /\ merged = [i \in Items |-> FALSE]
    /\ head \in {0, 1}
    /\ pc = "idle"
    /\ states = <<>>
    /\ action = Unselected
    /\ acts = 0
    /\ result = "never"
    /\ now = LockMaxAgeMinutes
    /\ lock \in {NoLock, LockBy(1, 0)}
    /\ activeLocks = [p \in Procs |-> FALSE]
    /\ fsOps = <<>>
    /\ lpc = [p \in Procs |-> "idle"]
    /\ apc = [p \in Procs |-> "idle"]
    /\ env = Healthy
    /\ flow = NoFlow
    /\ batch = NoBatch
    /\ agent = NoAgent
    /\ validation = NoValidation
    /\ names = NoNames

\* runProject with the master plan in place
resumeRun == runProject /\ result' = "running"

\* deriveAllStates with no failing query
resumeDerive == derive /\ states' = deriveAllStates([i \in Items |-> {}])

\* executePRP with no failing command: it returns after git status --porcelain
\* showed no change, or after gh pr create
resumeExecute == executePRP /\ result' = "done"

NextResume ==
    \/ resumeRun
    \/ resumeDerive
    \/ executeNextAction
    \/ resumeExecute

\* The scheduler invokes runProject again and again, and a run that has started
\* goes on to its return
SpecResume ==
    /\ InitResume
    /\ [][NextResume]_vars
    /\ WF_vars(resumeRun)
    /\ WF_vars(resumeDerive)
    /\ WF_vars(executeNextAction)
    /\ WF_vars(resumeExecute)

\* C20, as claimed: with the branch of A pushed and no request opened,
\* re-invoking the run eventually opens a request for A.
C20_ResumeOpensRequest ==
    (branch[1] /\ pr[1].state = "absent") ~> (pr[1].state = "open")

-----------------------------------------------------------------------------
\* The workflows command by command: the run loop on a plan of one item, with
\* executePRP, runRevision and mergeApprovedPR as the sequences of git, gh and
\* agent commands they make, any one of which can fail

Range(seq) == {seq[k] : k \in DOMAIN seq}

\* Commands whose failure exec throws to the workflow's caller
ExecuteFailures ==
    {"checkout main", "pull", "checkout branch", "checkout -b branch", "add",
     "commit", "push", "pr create", "return to main"}

RevisionFailures ==
    {"pr view", "fetch", "checkout branch", "add", "commit", "push",
     "pr comment", "return to main"}

\* Commands run with silent set inside a try with an empty catch
BestEffort == {"branch -D"}

executePRPCommands_alwaysCreates(remote, agentOk, changes) ==
    <<"checkout main", "pull", "checkout -b branch", "agent">>
    \o (IF ~agentOk THEN <<"return to main", "branch -D", "throw">>
        ELSE <<"validate", "add", "status">>
             \o (IF ~changes THEN <<"return to main", "branch -D">>
                 ELSE <<"commit", "push", "pr create", "return to main">>))

executePRPCommands_noChangeCheck(remote, agentOk, changes) ==
    <<"checkout main", "pull",
      IF remote THEN "checkout branch" ELSE "checkout -b branch", "agent">>
    \o (IF ~agentOk THEN <<"return to main", "branch -D", "throw">>
        ELSE <<"validate", "add", "status", "commit", "push", "pr create",
               "return to main">>)

\* executePRP: the commands it makes when none of them fails, given whether the
\* remote branch exists, whether the agent succeeds and whether git status
\* --porcelain shows changes; "throw" is its own throw new Error
executePRPCommands(remote, agentOk, changes) ==
    <<"checkout main", "pull",
      IF remote THEN "checkout branch" ELSE "checkout -b branch", "agent">>
    \o (IF ~agentOk THEN <<"return to main", "branch -D", "throw">>
        ELSE <<"validate", "add", "status">>
             \o (IF ~changes THEN <<"return to main", "branch -D">>
                 ELSE <<"commit", "push", "pr create", "return to main">>))

runRevisionCommands_ignoresFeedback(feedback, agentOk, changes) ==
    <<"pr view", "fetch", "checkout branch", "agent">>
    \o (IF ~agentOk THEN <<"return to main", "throw">>
        ELSE <<"add", "status">>
             \o (IF changes THEN <<"commit", "push", "pr comment">> ELSE <<>>)
             \o <<"return to main">>)

runRevisionCommands_staysOnBranch(feedback, agentOk, changes) ==
    <<"pr view">>
    \o (IF ~feedback THEN <<>>
        ELSE <<"fetch", "checkout branch", "agent">>
             \o (IF ~agentOk THEN <<"return to main", "throw">>
                 ELSE <<"add", "status">>
                      \o (IF changes
                          THEN <<"commit", "push", "pr comment", "return to main">>
                          ELSE <<>>)))

\* runRevision: the commands it makes when none of them fails, given whether
\* any feedback text was collected, whether the agent succeeds and whether git
\* status --porcelain shows changes
runRevisionCommands(feedback, agentOk, changes) ==
    <<"pr view">>
    \o (IF ~feedback THEN <<>>
        ELSE <<"fetch", "checkout branch", "agent">>
             \o (IF ~agentOk THEN <<"return to main", "throw">>
                 ELSE <<"add", "status">>
                      \o (IF changes THEN <<"commit", "push", "pr comment">> ELSE <<>>)
                      \o <<"return to main">>))

\* Commands of enrichPRP whose failure is thrown to its caller
EnrichFailures == {"rename", "add", "commit", "push"}

enrichPRPCommands_ignoresAgentFailure(agentOk, found) ==
    <<"agent">>
    \o (IF ~found THEN <<"throw">> ELSE <<"rename", "add", "commit", "push">>)

\* enrichPRP: the commands it makes when none of them fails, given whether the
\* agent succeeds and whether findGeneratedPRP finds a file; "throw" is its own
\* throw new Error
enrichPRPCommands(agentOk, found) ==
    <<"agent">>
    \o (IF ~agentOk \/ ~found THEN <<"throw">>
        ELSE <<"rename", "add", "commit", "push">>)

\* mergeApprovedPR: gh pr merge --squash --delete-branch
mergeApprovedPRCommands == <<"pr merge">>

\* Whether command c throws: it is the one that fails in this run, or it is the
\* workflow's own throw, or git / gh refuse it (a local branch of that name
\* exists, the branch already has an open request, the request is not open)
Throws(c, fault, local, prOpen) ==
    \/ c = fault
    \/ c = "throw"
    \/ c = "checkout -b branch" /\ local
    \/ c = "pr create" /\ prOpen
    \/ c = "pr merge" /\ ~prOpen

\* The commands of cmds that completed, and the one that threw, if any; a
\* best-effort command that fails is passed over
runCommands(cmds, fault, local, prOpen) ==
    LET seq == IF fault \in BestEffort
               THEN SelectSeq(cmds, LAMBDA c : c # fault) ELSE cmds
        k == find({j \in DOMAIN seq : Throws(seq[j], fault, local, prOpen)})
    IN [done |-> IF k = 0 THEN seq ELSE SubSeq(seq, 1, k - 1),
        failed |-> IF k = 0 THEN "none" ELSE seq[k],
        threw |-> k # 0]

\* The checked-out branch after the completed commands: 0 is the default branch
headAfter(done, h, i) ==
    LET cs == {j \in DOMAIN done :
                 done[j] \in {"checkout main", "return to main", "checkout branch",
                              "checkout -b branch"}}
        k == CHOOSE j \in cs : \A l \in cs : l <= j
    IN IF cs = {} THEN h
       ELSE IF done[k] \in {"checkout main", "return to main"} THEN 0 ELSE i

\* Whether the local branch of the item exists after the completed commands
localAfter(done, local) ==
    IF "branch -D" \in Range(done) \/ "pr merge" \in Range(done) THEN FALSE
    ELSE IF "checkout branch" \in Range(done) \/ "checkout -b branch" \in Range(done)
        THEN TRUE
    ELSE local

flowFrame == <<planVars, now, lpc, apc, env, batch, agent, validation, names>>

\* executePRP, command by command, and the return of the run after it
executePRPSteps ==
    /\ pc = "act" /\ action.type = "execute"
    /\ acts' = acts + 1
    /\ \E agentOk \in BOOLEAN, changes \in BOOLEAN,
          fault \in ExecuteFailures \cup BestEffort \cup {"none"} :
         LET i == action.item
             r == runCommands(executePRPCommands(branch[i], agentOk, changes),
                              fault, flow.local, pr[i].state = "open")
         IN /\ flow' = [type |-> "execute", remote |-> branch[i],
                        local |-> localAfter(r.done, flow.local),
                        feedback |-> FALSE, agentOk |-> agentOk,
                        found |-> FALSE, changes |-> changes, fault |-> fault, done |-> r.done,
                        failed |-> r.failed, threw |-> r.threw]
            /\ head' = headAfter(r.done, head, i)
            /\ branch' = IF "push" \in Range(r.done)
                         THEN [branch EXCEPT ![i] = TRUE] ELSE branch
            /\ pr' = IF "pr create" \in Range(r.done)
                     THEN [pr EXCEPT ![i] = NewPR] ELSE pr
            /\ Return(IF r.threw THEN "error" ELSE "done")
    /\ UNCHANGED <<enriched, merged, flowFrame>>

\* runRevision, command by command, and the return of the run after it
runRevisionSteps ==
    /\ pc = "act" /\ action.type = "revise"
    /\ acts' = acts + 1
    /\ \E feedback \in BOOLEAN, agentOk \in BOOLEAN, changes \in BOOLEAN,
          fault \in RevisionFailures \cup {"none"} :
         LET i == action.item
             r == runCommands(runRevisionCommands(feedback, agentOk, changes),
                              fault, flow.local, pr[i].state = "open")
         IN /\ flow' = [type |-> "revise", remote |-> branch[i],
                        local |-> localAfter(r.done, flow.local),
                        feedback |-> feedback, agentOk |-> agentOk,
                        found |-> FALSE, changes |-> changes, fault |-> fault, done |-> r.done,
                        failed |-> r.failed, threw |-> r.threw]
            /\ head' = headAfter(r.done, head, i)
            /\ Return(IF r.threw THEN "error" ELSE "done")
    /\ UNCHANGED <<worldVars, flowFrame>>

\* mergeApprovedPR, and the run loop after it: on to the next derivation, or
\* the return of the run with the error
mergeApprovedPRSteps ==
    /\ pc = "act" /\ action.type = "merge"
    /\ acts' = acts + 1
    /\ \E fault \in {"pr merge", "none"} :
         LET i == action.item
             r == runCommands(mergeApprovedPRCommands, fault, flow.local,
                              pr[i].state = "open")
         IN /\ flow' = [type |-> "merge", remote |-> branch[i],
                        local |-> localAfter(r.done, flow.local),
                        feedback |-> FALSE, agentOk |-> FALSE,
                        found |-> FALSE, changes |-> FALSE, fault |-> fault, done |-> r.done,
                        failed |-> r.failed, threw |-> r.threw]
            /\ IF r.threw
               THEN Return("error") /\ UNCHANGED worldVars
               ELSE /\ merged' = [merged EXCEPT ![i] = TRUE]
                    /\ pr' = [pr EXCEPT ![i] = NoPR]
                    /\ branch' = [branch EXCEPT ![i] = FALSE]
                    /\ pc' = "derive"
                    /\ UNCHANGED <<enriched, states, action, result, lockVars>>
    /\ UNCHANGED <<head, flowFrame>>

\* enrichPRP, command by command, and the run loop after it: on to the next
\* derivation, or the return of the run with the error
enrichPRPSteps ==
    /\ pc = "act" /\ action.type = "enrich"
    /\ acts' = acts + 1
    /\ \E agentOk \in BOOLEAN, found \in BOOLEAN, fault \in EnrichFailures \cup {"none"} :
         LET i == action.item
             r == runCommands(enrichPRPCommands(agentOk, found), fault, flow.local,
                              pr[i].state = "open")
         IN /\ flow' = [type |-> "enrich", remote |-> branch[i], local |-> flow.local,
                        feedback |-> FALSE, agentOk |-> agentOk, found |-> found,
                        changes |-> FALSE, fault |-> fault, done |-> r.done,
                        failed |-> r.failed, threw |-> r.threw]
            /\ enriched' = IF "rename" \in Range(r.done)
                           THEN [enriched EXCEPT ![i] = TRUE] ELSE enriched
            /\ IF r.threw
               THEN Return("error")
               ELSE pc' = "derive" /\ UNCHANGED <<states, action, result, lockVars>>
    /\ UNCHANGED <<branch, pr, merged, head, flowFrame>>

InitFlow ==
    /\ prps = <<"A">>
    /\ dependsOn = <<{}>>
    /\ completed = {}
    /\ enriched \in {<<FALSE>>, <<TRUE>>}
    /\ branch = <<FALSE>>
    /\ pr = <<NoPR>>
    /\ merged = <<FALSE>>
    /\ head = 0
    /\ pc = "idle"
    /\ states = <<>>
    /\ action = Unselected
    /\ acts = 0
    /\ result = "never"
    /\ now = LockMaxAgeMinutes
    /\ lock = NoLock
    /\ activeLocks = [p \in Procs |-> FALSE]
    /\ fsOps = <<>>
    /\ lpc = [p \in Procs |-> "idle"]
    /\ apc = [p \in Procs |-> "idle"]
    /\ env = Healthy
    /\ flow = NoFlow
    /\ batch = NoBatch
    /\ agent = NoAgent
    /\ validation = NoValidation
    /\ names = NoNames

NextFlow ==
    \/ runProject
    \/ derive
    \/ executeNextAction
    \/ mergeApprovedPRSteps
    \/ runRevisionSteps
    \/ enrichPRPSteps
    \/ executePRPSteps
    \/ Review

SpecFlow == InitFlow /\ [][NextFlow]_vars

ExecuteStep == pc = "act" /\ action.type = "execute" /\ acts' = acts + 1

ReviseStep == pc = "act" /\ action.type = "revise" /\ acts' = acts + 1

BranchCheckouts == {"checkout branch", "checkout -b branch"}

\* C21: when the remote branch of the item exists, Execute checks that branch
\* out and never attempts to create it, and the checkout is not what fails;
\* only when no remote branch exists does it attempt the creation, and then it
\* never attempts the plain checkout
C21_ExecuteReusesRemoteBranch ==
    [][ExecuteStep =>
        LET i == action.item
            attempted == Range(flow'.done) \cup {flow'.failed}
        IN /\ branch[i] =>
                /\ "checkout -b branch" \notin attempted
                /\ flow'.fault \notin {"checkout main", "pull", "checkout branch"}
                     => "checkout branch" \in Range(flow'.done)
                /\ flow'.fault # "checkout branch" => flow'.failed \notin BranchCheckouts
           /\ ~branch[i] =>
                /\ "checkout branch" \notin attempted
                /\ flow'.fault \notin {"checkout main", "pull"}
                     => "checkout -b branch" \in attempted
           /\ "push" \notin Range(flow'.done) => branch' = branch]_vars

\* A second Execute of the item found the remote branch the first one pushed,
\* checked it out and went on to open the request
C21_Witness ==
    /\ flow.type = "execute" /\ flow.remote /\ ~flow.threw
    /\ "checkout branch" \in Range(flow.done)
    /\ "pr create" \in Range(flow.done)

\* C25: an Execute or Revise that fails after it checked out the item's
\* branch leaves the working tree on the main branch, and the run returns
\* without trying the workflow again
C25_FailureRollsBackToMain ==
    [][(ExecuteStep \/ ReviseStep)
         /\ flow'.threw /\ Range(flow'.done) \cap BranchCheckouts # {}
       => head' = 0 /\ pc' = "idle" /\ result' = "error"]_vars

C28_NoFeedbackNoOp ==
    [][ReviseStep /\ ~flow'.feedback /\ flow'.fault # "pr view" =>
        /\ flow'.done = <<"pr view">>
        /\ ~flow'.threw
        /\ head' = head /\ flow'.local = flow.local
        /\ worldVars' = worldVars
        /\ result' = "done" /\ pc' = "idle"]_vars

\* A Revise without feedback has returned after gh pr view alone
C28_Witness ==
    /\ flow.type = "revise" /\ ~flow.feedback
    /\ flow.done = <<"pr view">> /\ ~flow.threw
    /\ result = "done" /\ pc = "idle"

RevisionWrites == {"commit", "push", "pr comment"}

EnrichStep == pc = "act" /\ action.type = "enrich" /\ acts' = acts + 1

-----------------------------------------------------------------------------
\* runAllProjects: one invocation over a list of projects, each with its own
\* lock file, which another instance may hold

\* Largest number of projects in the list
MaxProjects == 3

\* A project's lock file as the invocation finds it: absent, left behind long
\* ago by another instance, or written by another instance just now
LockFiles == {NoLock, LockBy(2, 0), LockBy(2, LockMaxAgeMinutes)}

batchFrame ==
    <<planVars, worldVars, head, pc, states, action, acts, result, lock,
      activeLocks, fsOps, now, lpc, apc, env, flow, agent,
      validation, names>>

nextProject_stopsOnError(n, cur, outcome) ==
    IF cur < n /\ outcome # "error"
    THEN [at |-> "loop", cur |-> cur + 1]
    ELSE [at |-> "end", cur |-> cur]

\* The for-of loop after runProject returned for project cur of n with that
\* outcome: on to the next project, or out of the loop
nextProject(n, cur, outcome) ==
    IF cur < n
    THEN [at |-> "loop", cur |-> cur + 1]
    ELSE [at |-> "end", cur |-> cur]

\* Project cur has returned with outcome o
batchReturn(o, locks) ==
    LET nxt == nextProject(batch.n, batch.cur, o)
    IN batch' = [at |-> nxt.at, n |-> batch.n, cur |-> nxt.cur, locks |-> locks,
                 runs |-> Append(batch.runs, [project |-> batch.cur, outcome |-> o]),
                 outcome |-> "none"]

\* runAllProjects is called with a list of n projects
runAllProjects ==
    /\ batch.at = "idle"
    /\ \E n \in 0..MaxProjects :
         \E ls \in [1..n -> LockFiles] :
            batch' = [at |-> IF n = 0 THEN "end" ELSE "loop", n |-> n,
                      cur |-> IF n = 0 THEN 0 ELSE 1, locks |-> ls,
                      runs |-> <<>>, outcome |-> "none"]
    /\ UNCHANGED batchFrame

\* runProject for the current project, up to try: checkPrerequisites, acquireLock
batchRunProject ==
    /\ batch.at = "loop"
    /\ LET a == acquireLock(batch.locks[batch.cur], now, 1)
       IN IF ~checkPrerequisites(env).ok
          THEN batchReturn("prereq", batch.locks)
          ELSE IF ~a.ok
          THEN batchReturn("locked", batch.locks)
          ELSE batch' = [batch EXCEPT !.at = "run",
                                      !.locks[batch.cur] = a.file]
    /\ UNCHANGED batchFrame

\* runOrchestration for the current project returns or throws, and the catch
\* of runProject logs the error
batchRunOrchestration ==
    /\ batch.at = "run"
    /\ \E o \in ReturnsWithLock :
         batch' = [batch EXCEPT !.at = "finally", !.outcome = o]
    /\ UNCHANGED batchFrame

\* The finally of runProject, and its return to the loop
batchFinally ==
    /\ batch.at = "finally"
    /\ batchReturn(batch.outcome,
                   [batch.locks EXCEPT ![batch.cur] = releaseLock(batch.locks[batch.cur])])
    /\ UNCHANGED batchFrame

InitBatch ==
    /\ prps = <<>>
    /\ dependsOn = <<>>
    /\ completed = {}
    /\ enriched = <<>>
    /\ branch = <<>>
    /\ pr = <<>>
    /\ merged = <<>>
    /\ head = 0
    /\ pc = "idle"
    /\ states = <<>>
    /\ action = Unselected
    /\ acts = 0
    /\ result = "never"
    /\ now = LockMaxAgeMinutes
    /\ lock = NoLock
    /\ activeLocks = [p \in Procs |-> FALSE]
    /\ fsOps = <<>>
    /\ lpc = [p \in Procs |-> Idle]
    /\ apc = [p \in Procs |-> "idle"]
    /\ env = Healthy
    /\ flow = NoFlow
    /\ batch = NoBatch
    /\ agent = NoAgent
    /\ validation = NoValidation
    /\ names = NoNames

NextBatch ==
    \/ runAllProjects
    \/ batchRunProject
    \/ batchRunOrchestration
    \/ batchFinally

SpecBatch == InitBatch /\ [][NextBatch]_vars

\* Projects whose lock file this invocation holds
HeldLocks ==
    {k \in 1..batch.n : batch.locks[k].exists /\ batch.locks[k].pid = 1}

\* C22: the projects of a batch return one after the other in list order; a
\* project is entered only after every project before it has returned and
\* released its lock, so that at most the current project's lock is held; and
\* the loop is left only when every project of the list has had its run,
\* whatever the runs before it returned, a workflow error included
C22_SequentialAndIsolated ==
    /\ \A j \in DOMAIN batch.runs : batch.runs[j].project = j
    /\ batch.at = "loop" => Len(batch.runs) = batch.cur - 1 /\ HeldLocks = {}
    /\ batch.at \in {"run", "finally"} =>
         Len(batch.runs) = batch.cur - 1 /\ HeldLocks = {batch.cur}
    /\ batch.at = "end" => Len(batch.runs) = batch.n /\ HeldLocks = {}

\* A batch of three projects is over: the workflow of the first threw, the
\* second and the third still ran
C22_Witness ==
    /\ batch.at = "end" /\ batch.n = MaxProjects
    /\ batch.runs[1].outcome = "error"
    /\ batch.runs[2].outcome = "done"
    /\ batch.runs[MaxProjects].outcome = "wait"

-----------------------------------------------------------------------------
\* runClaude: one call, the spawned process, the timer and the two handlers
\* that resolve the promise

\* Upper end of the agent's clock, in minutes
MaxAgentMinutes == 26

AgentWorkflows == {"enrich", "execute", "revise"}

\* getTimeouts, in minutes
getTimeouts(w) ==
    CASE w = "enrich" -> EnrichmentTimeoutMinutes
      [] w = "execute" -> ExecutionTimeoutMinutes
      [] w = "revise" -> RevisionTimeoutMinutes

\* The code of the close event: the exit status, or null after a signal
ExitCodes == {"zero", "nonzero", "null"}

\* runClaude's close handler: success: code === 0
closeResult(code) == IF code = "zero" THEN "success" ELSE "failure"

agentFrame ==
    <<planVars, worldVars, head, pc, states, action, acts, result, lock,
      activeLocks, fsOps, now, lpc, apc, env, flow, batch, validation, names>>

\* runClaude is called by a workflow: spawn, which succeeds or not, and
\* setTimeout
runClaude ==
    /\ agent.proc = "none"
    /\ \E w \in AgentWorkflows, spawned \in BOOLEAN :
         agent' = [agent EXCEPT !.workflow = w,
                                !.proc = IF spawned THEN "running" ELSE "failed",
                                !.timer = "pending"]
    /\ UNCHANGED agentFrame

\* A minute passes before the promise is resolved; a timer that is due fires
\* first
agentTick ==
    /\ agent.proc # "none" /\ agent.result = "pending"
    /\ agent.elapsed < MaxAgentMinutes
    /\ ~(agent.timer = "pending" /\ agent.elapsed >= getTimeouts(agent.workflow))
    /\ agent' = [agent EXCEPT !.elapsed = @ + 1]
    /\ UNCHANGED agentFrame

\* The agent process ends by itself, with status zero or not
agentExit ==
    /\ agent.proc = "running" /\ ~agent.killed
    /\ \E c \in {"zero", "nonzero"} :
         agent' = [agent EXCEPT !.proc = "exited", !.code = c]
    /\ UNCHANGED agentFrame

\* The timer callback: unless proc.killed, log the timeout and send SIGTERM,
\* which reaches the process only if it has not ended
agentTimeout ==
    /\ agent.timer = "pending" /\ agent.proc \in {"running", "exited"}
    /\ agent.elapsed >= getTimeouts(agent.workflow)
    /\ agent' = [agent EXCEPT !.timer = "fired",
                              !.timedOut = ~agent.killed,
                              !.killed = agent.proc = "running"]
    /\ UNCHANGED agentFrame

\* The process after SIGTERM: it dies of the signal, or it handles the signal
\* and ends with a status of its own; a process that ignores the signal never
\* takes this step
agentSignalled ==
    /\ agent.proc = "running" /\ agent.killed
    /\ \E c \in ExitCodes :
         agent' = [agent EXCEPT !.proc = "exited", !.code = c]
    /\ UNCHANGED agentFrame

\* proc.on('error'): clearTimeout and resolve with success false
agentError ==
    /\ agent.proc = "failed" /\ agent.result = "pending"
    /\ agent' = [agent EXCEPT !.timer = "cleared", !.result = "failure"]
    /\ UNCHANGED agentFrame

\* proc.on('close'): clearTimeout and resolve with success: code === 0
agentClose ==
    /\ agent.proc = "exited" /\ agent.result = "pending"
    /\ agent' = [agent EXCEPT !.proc = "closed",
                              !.timer = IF @ = "pending" THEN "cleared" ELSE @,
                              !.result = closeResult(agent.code)]
    /\ UNCHANGED agentFrame

InitAgent ==
    /\ prps = <<>>
    /\ dependsOn = <<>>
    /\ completed = {}
    /\ enriched = <<>>
    /\ branch = <<>>
    /\ pr = <<>>
    /\ merged = <<>>
    /\ head = 0
    /\ pc = "idle"
    /\ states = <<>>
    /\ action = Unselected
    /\ acts = 0
    /\ result = "never"
    /\ now = 0
    /\ lock = NoLock
    /\ activeLocks = [p \in Procs |-> FALSE]
    /\ fsOps = <<>>
    /\ lpc = [p \in Procs |-> Idle]
    /\ apc = [p \in Procs |-> "idle"]
    /\ env = Healthy
    /\ flow = NoFlow
    /\ batch = NoBatch
    /\ agent = NoAgent
    /\ validation = NoValidation
    /\ names = NoNames

NextAgent ==
    \/ runClaude
    \/ agentTick
    \/ agentExit
    \/ agentTimeout
    \/ agentSignalled
    \/ agentError
    \/ agentClose

SpecAgent == InitAgent /\ [][NextAgent]_vars

\* C31: a runClaude call whose timer fired and logged the timeout resolves
\* with success false
C31_TimedOutNeverSuccess ==
    (agent.timedOut /\ agent.result # "pending") => agent.result = "failure"

-----------------------------------------------------------------------------
\* runValidation inside executePRP, and the request body made from its result

ValidationSteps == {"build", "test", "format"}

\* One step of runValidation: skipped when package.json has no such script,
\* otherwise exec with silent set inside try, and false in the catch
stepPasses(present, ok) ==
    IF present THEN exec(ok, TRUE) # "throws" ELSE TRUE

\* buildPRBody: the status column of the validation table
buildPRBody(v) ==
    [build |-> IF v.build THEN "Pass" ELSE "Fail",
     test |-> IF v.test THEN "Pass" ELSE "Fail",
     format |-> IF v.format THEN "Pass" ELSE "Check"]

validationFrame ==
    <<planVars, worldVars, head, pc, states, action, acts, result, lock,
      activeLocks, fsOps, now, lpc, apc, env, flow, batch, agent, names>>

\* runValidation is called: package.json is absent, unreadable, or has some of
\* the three scripts, some of which fail when run
runValidation ==
    /\ validation.at = "idle"
    /\ \E pkg \in {"absent", "unparsable", "ok"} :
         \E scripts \in SUBSET ValidationSteps :
            \E failing \in SUBSET scripts :
               /\ pkg # "ok" => scripts = {}
               /\ validation' = [validation EXCEPT
                                   !.at = IF pkg = "ok" THEN "build" ELSE "validated",
                                   !.pkg = pkg, !.scripts = scripts,
                                   !.failing = failing]
    /\ UNCHANGED validationFrame

validateBuild ==
    /\ validation.at = "build"
    /\ validation' = [validation EXCEPT
                        !.at = "test",
                        !.result.build = stepPasses("build" \in validation.scripts,
                                                    "build" \notin validation.failing)]
    /\ UNCHANGED validationFrame

validateTest ==
    /\ validation.at = "test"
    /\ validation' = [validation EXCEPT
                        !.at = "format",
                        !.result.test = stepPasses("test" \in validation.scripts,
                                                   "test" \notin validation.failing)]
    /\ UNCHANGED validationFrame

validateFormat ==
    /\ validation.at = "format"
    /\ validation' = [validation EXCEPT
                        !.at = "validated",
                        !.result.format = stepPasses("format" \in validation.scripts,
                                                     "format" \notin validation.failing)]
    /\ UNCHANGED validationFrame

\* executePRP after runValidation returned, with changes in the working tree:
\* commit, push, the body file, gh pr create
createRequest ==
    /\ validation.at = "validated"
    /\ validation' = [validation EXCEPT
                        !.at = "requested",
                        !.done = SubSeq(executePRPCommands(FALSE, TRUE, TRUE), 6, 10),
                        !.body = buildPRBody(validation.result)]
    /\ UNCHANGED validationFrame

InitValidate ==
    /\ prps = <<>>
    /\ dependsOn = <<>>
    /\ completed = {}
    /\ enriched = <<>>
    /\ branch = <<>>
    /\ pr = <<>>
    /\ merged = <<>>
    /\ head = 0
    /\ pc = "idle"
    /\ states = <<>>
    /\ action = Unselected
    /\ acts = 0
    /\ result = "never"
    /\ now = 0
    /\ lock = NoLock
    /\ activeLocks = [p \in Procs |-> FALSE]
    /\ fsOps = <<>>
    /\ lpc = [p \in Procs |-> Idle]
    /\ apc = [p \in Procs |-> "idle"]
    /\ env = Healthy
    /\ flow = NoFlow
    /\ batch = NoBatch
    /\ agent = NoAgent
    /\ validation = NoValidation
    /\ names = NoNames

NextValidate ==
    \/ runValidation
    \/ validateBuild
    \/ validateTest
    \/ validateFormat
    \/ createRequest

SpecValidate == InitValidate /\ [][NextValidate]_vars

\* C32: when the request is created, every validation script that failed shows
\* as failed in the body, and commit, push and gh pr create were made whatever
\* failed
C32_FailuresRecordedNotFatal ==
    validation.at = "requested" =>
        /\ \A st \in validation.failing : validation.body[st] # "Pass"
        /\ {"commit", "push", "pr create"} \subseteq Range(validation.done)

-----------------------------------------------------------------------------
\* Branch names: the name executePRP makes for an item and the prefix
\* derivePRPState lists remote branches by. A string is a sequence of
\* characters

\* slice(0, 30) of the title slug
SlugMaxLength == 30

\* toLowerCase on the characters that occur
Lower(c) ==
    CASE c = "A" -> "a"
      [] c = "B" -> "b"
      [] c = "Y" -> "y"
      [] OTHER -> c

toLowerCase(str) == [k \in DOMAIN str |-> Lower(str[k])]

\* The characters [a-z0-9] that occur
SlugChars == {"a", "b", "x", "y", "1"}

\* replace(/[^a-z0-9]+/g, '-') from position k on: every run of other
\* characters becomes one hyphen
RECURSIVE replaceRuns(_, _)
replaceRuns(str, k) ==
    IF k > Len(str) THEN <<>>
    ELSE IF str[k] \in SlugChars THEN <<str[k]>> \o replaceRuns(str, k + 1)
    ELSE IF k > 1 /\ str[k - 1] \notin SlugChars THEN replaceRuns(str, k + 1)
    ELSE <<"-">> \o replaceRuns(str, k + 1)

\* replace(/^-|-$/g, '')
trimHyphens(str) ==
    LET a == IF str # <<>> /\ Head(str) = "-" THEN Tail(str) ELSE str
    IN IF a # <<>> /\ a[Len(a)] = "-" THEN SubSeq(a, 1, Len(a) - 1) ELSE a

\* executePRP: branchSlug
branchSlug(title) ==
    LET t == trimHyphens(replaceRuns(toLowerCase(title), 1))
    IN SubSeq(t, 1, IF Len(t) < SlugMaxLength THEN Len(t) ELSE SlugMaxLength)

Auto == <<"a", "u", "t", "o", "/">>

\* executePRP: branch
branchName(id, title) == Auto \o toLowerCase(id) \o <<"-">> \o branchSlug(title)

\* derivePRPState: branchPrefix
branchPrefix(id) == Auto \o toLowerCase(id) \o <<"-">>

StartsWith(str, pre) ==
    Len(pre) <= Len(str) /\ SubSeq(str, 1, Len(pre)) = pre

\* The characters of branch names in the order git sorts them by
CharOrder == <<"-", "/", "1", "a", "b", "o", "t", "u", "x", "y">>

CharRank(c) == CHOOSE k \in DOMAIN CharOrder : CharOrder[k] = c

RECURSIVE SortsBefore(_, _)
SortsBefore(s, t) ==
    IF s = <<>> THEN t # <<>>
    ELSE IF t = <<>> THEN FALSE
    ELSE IF Head(s) = Head(t) THEN SortsBefore(Tail(s), Tail(t))
    ELSE CharRank(Head(s)) < CharRank(Head(t))

\* derivePRPState: the first line of git branch -r --list "origin/<prefix>*",
\* origin/ removed; the empty string when nothing is listed
firstBranch(remote, prefix) ==
    LET listed == {b \in remote : StartsWith(b, prefix)}
    IN IF listed = {} THEN <<>>
       ELSE CHOOSE b \in listed : \A c \in listed \ {b} : SortsBefore(b, c)

\* Ids of plan items
PlanItemIds == {<<"A">>, <<"a">>, <<"B">>, <<"A", "B">>, <<"A", "-", "B">>}

\* Titles: plain, with a space and a capital, without any letter or digit, and
\* one of 32 characters whose slug is cut at 30
PlanTitles ==
    {<<"B">>, <<"x", " ", "Y">>, <<"!">>,
     [k \in 1..32 |-> IF k < 30 THEN "x" ELSE IF k = 30 THEN " " ELSE "y"]}

namesFrame ==
    <<planVars, worldVars, head, pc, states, action, acts, result, lock,
      activeLocks, fsOps, now, lpc, apc, env, flow, batch, agent, validation>>

\* A master plan of two items with different ids is loaded
namesPlan ==
    /\ names.at = "idle"
    /\ \E id1 \in PlanItemIds, id2 \in PlanItemIds, t1 \in PlanTitles, t2 \in PlanTitles :
         /\ id1 # id2
         /\ names' = [at |-> "planned", ids |-> <<id1, id2>>, titles |-> <<t1, t2>>,
                      remote |-> {}, derived |-> <<<<>>, <<>>>>]
    /\ UNCHANGED namesFrame

\* executePRP for item i makes its branch and pushes it
namesExecute(i) ==
    /\ names.at = "planned"
    /\ names' = [names EXCEPT
                   !.remote = @ \cup {branchName(names.ids[i], names.titles[i])}]
    /\ UNCHANGED namesFrame

\* derivePRPState for item i looks for its branch
namesDerive(i) ==
    /\ names.at = "planned"
    /\ names' = [names EXCEPT
                   !.derived[i] = firstBranch(names.remote, branchPrefix(names.ids[i]))]
    /\ UNCHANGED namesFrame

InitNames ==
    /\ prps = <<>>
    /\ dependsOn = <<>>
    /\ completed = {}
    /\ enriched = <<>>
    /\ branch = <<>>
    /\ pr = <<>>
    /\ merged = <<>>
    /\ head = 0
    /\ pc = "idle"
    /\ states = <<>>
    /\ action = Unselected
    /\ acts = 0
    /\ result = "never"
    /\ now = 0
    /\ lock = NoLock
    /\ activeLocks = [p \in Procs |-> FALSE]
    /\ fsOps = <<>>
    /\ lpc = [p \in Procs |-> Idle]
    /\ apc = [p \in Procs |-> "idle"]
    /\ env = Healthy
    /\ flow = NoFlow
    /\ batch = NoBatch
    /\ agent = NoAgent
    /\ validation = NoValidation
    /\ names = NoNames

NextNames ==
    \/ namesPlan
    \/ \E i \in {1, 2} : namesExecute(i)
    \/ \E i \in {1, 2} : namesDerive(i)

SpecNames == InitNames /\ [][NextNames]_vars

\* C40: the branch name of every item starts with the prefix looked up for
\* that item and with the prefix of no other item, and a branch derived for
\* an item is the one executePRP makes for it
C40_BranchNamesApart ==
    \A i \in DOMAIN names.ids :
        LET own == branchName(names.ids[i], names.titles[i])
        IN /\ StartsWith(own, branchPrefix(names.ids[i]))
           /\ \A j \in DOMAIN names.ids \ {i} :
                 ~StartsWith(own, branchPrefix(names.ids[j]))
           /\ names.derived[i] # <<>> => names.derived[i] = own

-----------------------------------------------------------------------------
\* releaseLock on its own: called on any lock file, by a process that has it in
\* its activeLocks or not, and called again

InitRelease ==
    /\ prps = <<>>
    /\ dependsOn = <<>>
    /\ completed = {}
    /\ enriched = <<>>
    /\ branch = <<>>
    /\ pr = <<>>
    /\ merged = <<>>
    /\ head = 0
    /\ pc = "idle"
    /\ states = <<>>
    /\ action = Unselected
    /\ acts = 0
    /\ result = "never"
    /\ now = MaxClock
    /\ lock \in {NoLock} \cup {LockBy(p, t) : p \in Procs, t \in 0..MaxClock}
    /\ activeLocks \in [Procs -> BOOLEAN]
    /\ fsOps = <<>>
    /\ lpc = [p \in Procs |-> Idle]
    /\ apc = [p \in Procs |-> "idle"]
    /\ env = Healthy
    /\ flow = NoFlow
    /\ batch = NoBatch
    /\ agent = NoAgent
    /\ validation = NoValidation
    /\ names = NoNames

\* releaseLock called by p, for the first or the second time: unlinkSync only
\* if existsSync, activeLocks.delete, and a catch around both
callReleaseLock(p) ==
    /\ apc[p] \in {"idle", "released"}
    /\ lock' = releaseLock(lock)
    /\ activeLocks' = [activeLocks EXCEPT ![p] = FALSE]
    /\ apc' = [apc EXCEPT ![p] = IF apc[p] = "idle" THEN "released" ELSE "released2"]
    /\ UNCHANGED <<fsOps, raceFrame>>

NextRelease == \E p \in Procs : callReleaseLock(p)

SpecRelease == InitRelease /\ [][NextRelease]_vars

====
